---- MODULE Spec2Model ----
(***************************************************************************)
(* The time-synchronised walker of the 3D office scene                      *)
(* (tmpapp copy/src/components/Office3D.tsx): WalkerAvatar's per-frame      *)
(* callback, its showDialog gate, and the TimeSyncedDialog bubble.          *)
(*                                                                         *)
(* Time is counted in ticks, TicksPerSecond ticks to the second; the props  *)
(* duration, dwell and offset are held in ticks.  Ratios such as tt =       *)
(* raw / leg are exact fractions <<n, d>> in lowest terms (d > 0), so the   *)
(* model follows the arithmetic of the code over the rationals; the         *)
(* rounding of IEEE doubles is not modelled.  A fraction with denominator   *)
(* 0 is what a division by zero leaves: <<1, 0>> is Infinity, <<-1, 0>> is  *)
(* -Infinity and <<0, 0>> is NaN.                                           *)
(*                                                                         *)
(* The components outside the Canvas follow, each with its own             *)
(* specification: the session WebSocket of the demo page (SpecDemo), the   *)
(* ApiService (SpecApi), the website flow (SpecWeb), WorkflowForm          *)
(* (SpecForm) and the agent chat page (SpecChat).                          *)
(***************************************************************************)
EXTENDS Integers, Sequences, FiniteSets, TLC

VARIABLES
    scene,   \* the WalkerAvatar instances mounted in the Canvas
    props,   \* props[w]: duration, dwell, offset of walker w (ticks)
    clock,   \* THREE.Clock.elapsedTime: the value of the latest getElapsedTime()
    obj,     \* obj[w]: what the walker's frame callback wrote to ref.current
    dlg,     \* dlg[w]: TimeSyncedDialog of walker w: visibleRef and rendered style
    frames,  \* frames[w]: how many times the walker's callback ran, counted to 2
    win,     \* win[w]: the dialog gate summed over the running cycle (observer)
    pending, \* the callbacks the render loop has still to call in this frame
    demo,    \* OfficeView's DemoRouteContent: its session and its WebSockets
    api,     \* the ApiService instance and the calls made on it
    web,     \* the website flow of the workspace page
    form,    \* WorkflowForm: its props, its state and the steps passed
    chat     \* AgentChatPage: its route, its messages, localStorage, its timeouts

\* the components outside the Canvas
pages == <<demo, api, web, form, chat>>

vars == <<scene, props, clock, obj, dlg, frames, win, pending, pages>>

(***************************************************************************)
(* Bounds of the model.                                                    *)
(***************************************************************************)
MaxCalls       == 3    \* calls made on the ApiService instance
MaxMounts      == 3    \* times the agent chat page is mounted
MaxSends       == 2    \* messages sent in the agent chat
MaxRuns        == 3    \* times the website flow is started
MaxSockets     == 4    \* WebSockets the demo page may open in one run
MaxLeg         == 3    \* duration ranges over 1..MaxLeg ticks
MaxDwell       == 2    \* dwell ranges over 0..MaxDwell ticks
MaxOffset      == 2    \* offset ranges over 0..MaxOffset ticks
MaxTime        == 24   \* the clock stops at MaxTime ticks (one walker)
PairMaxTime    == 8    \* the clock stops here when two walkers are mounted
TicksPerSecond == 2    \* resolution of the time grid
OfficeSeconds  == 23   \* the clock stops after this many seconds in the office scene

(***************************************************************************)
(* Exact fractions.                                                        *)
(***************************************************************************)
RECURSIVE Gcd(_, _)
Gcd(a, b) == IF b = 0 THEN a ELSE Gcd(b, a % b)

Abs(x) == IF x < 0 THEN -x ELSE x

Sgn(x) == IF x > 0 THEN 1 ELSE IF x < 0 THEN -1 ELSE 0

\* n / d in lowest terms with a positive denominator; n / 0 is +-Infinity
\* or NaN
Frac(n, d) ==
    IF d = 0 THEN <<Sgn(n), 0>>
    ELSE LET g == Gcd(Abs(n), Abs(d))
         IN  <<(Sgn(d) * n) \div g, Abs(d) \div g>>

NaN == <<0, 0>>
IsFinite(x) == x[2] # 0

Zero == <<0, 1>>
One  == <<1, 1>>

FracAdd(x, y)   == Frac(x[1] * y[2] + y[1] * x[2], x[2] * y[2])
FracSub(x, y)   == Frac(x[1] * y[2] - y[1] * x[2], x[2] * y[2])
FracTimes(x, k) == Frac(x[1] * k, x[2])
FracLess(x, y)  == x[1] * y[2] < y[1] * x[2]
FracLeq(x, y)   == x[1] * y[2] <= y[1] * x[2]
FracMin(x, y)   == IF FracLess(y, x) THEN y ELSE x

(***************************************************************************)
(* JavaScript's % for b # 0: the remainder takes the sign of the dividend  *)
(* and the size of the divisor alone matters.  (a % 0 is NaN: see          *)
(* WalkerFrame.)                                                           *)
(***************************************************************************)
JsRem(a, b) == IF a >= 0 THEN a % Abs(b) ELSE -((-a) % Abs(b))

(***************************************************************************)
(* Math.sin(x * Math.PI) for a fraction x.  The value is held as the angle *)
(* c in [-1/2, 1/2] (in half turns) with sin(c * PI) = sin(x * PI); the    *)
(* sine is strictly increasing on that interval, so two sines are equal    *)
(* exactly when their angles c are, and the sine is 0 exactly when c is    *)
(* Zero.  The sine of an infinity or of NaN is NaN.                        *)
(***************************************************************************)
SinPi(x) ==
    IF ~IsFinite(x) THEN NaN
    ELSE LET d == x[2]
             n == x[1] % (2 * d)          \* x reduced to [0, 2)
         IN  IF 2 * n <= d THEN Frac(n, d)
             ELSE IF 2 * n <= 3 * d THEN Frac(d - n, d)
             ELSE Frac(n - 2 * d, d)

(***************************************************************************)
(* WalkerAvatar: the frame callback (useFrame) and the dialog gate.        *)
(***************************************************************************)
\* the cycle without the dwell at the start
CycleOneDwell(leg, dwell) == leg + dwell + leg

\* const cycle = leg + dwell + leg + dwell
Cycle(leg, dwell) == leg + dwell + leg + dwell

\* raw with the offset subtracted
RawMinusOffset(time, offset, cycle) == JsRem(time - offset, cycle)

\* const raw = (clock.getElapsedTime() + offset) % cycle
Raw(time, offset, cycle) == JsRem(time + offset, cycle)

\* the chain with the third test written leg + dwell + dwell
BranchShortBack(raw, leg, dwell) ==
    IF raw < leg THEN "Forward"
    ELSE IF raw < leg + dwell THEN "DwellAtEnd"
    ELSE IF raw < leg + dwell + dwell THEN "Backward"
    ELSE "DwellAtStart"

\* the chain with the end of each segment counted in (<= for <)
BranchInclusive(raw, leg, dwell) ==
    IF raw <= leg THEN "Forward"
    ELSE IF raw <= leg + dwell THEN "DwellAtEnd"
    ELSE IF raw <= leg + dwell + leg THEN "Backward"
    ELSE "DwellAtStart"

\* the branch of the if / else-if chain that assigns tt
Branch(raw, leg, dwell) ==
    IF raw < leg THEN "Forward"
    ELSE IF raw < leg + dwell THEN "DwellAtEnd"
    ELSE IF raw < leg + dwell + leg THEN "Backward"
    ELSE "DwellAtStart"

\* tt with the way back measured from the end of the forward leg
\* (the dwell not subtracted)
TTBackNoDwell(raw, leg, dwell) ==
    IF raw < leg THEN Frac(raw, leg)
    ELSE IF raw < leg + dwell THEN One
    ELSE IF raw < leg + dwell + leg THEN FracSub(One, Frac(raw - leg, leg))
    ELSE Zero

\* tt with the way back running 0 -> 1 (the "1 -" left out)
TTBackFromZero(raw, leg, dwell) ==
    IF raw < leg THEN Frac(raw, leg)
    ELSE IF raw < leg + dwell THEN One
    ELSE IF raw < leg + dwell + leg THEN Frac(raw - leg - dwell, leg)
    ELSE Zero

\* tt with the way out divided by the whole cycle instead of the leg
TTForwardByCycle(raw, leg, dwell) ==
    IF raw < leg THEN Frac(raw, leg + dwell + leg + dwell)
    ELSE IF raw < leg + dwell THEN One
    ELSE IF raw < leg + dwell + leg THEN FracSub(One, Frac(raw - leg - dwell, leg))
    ELSE Zero

\* tt without the branch that holds the walker at the end of the path
TTNoEndDwell(raw, leg, dwell) ==
    IF raw < leg THEN Frac(raw, leg)
    ELSE IF raw < leg + dwell + leg THEN FracSub(One, Frac(raw - leg - dwell, leg))
    ELSE Zero

\* let tt: the curve parameter assigned by the taken branch
TT(raw, leg, dwell) ==
    CASE Branch(raw, leg, dwell) = "Forward"      -> Frac(raw, leg)
      [] Branch(raw, leg, dwell) = "DwellAtEnd"   -> One
      [] Branch(raw, leg, dwell) = "Backward"     ->
             FracSub(One, Frac(raw - leg - dwell, leg))
      [] Branch(raw, leg, dwell) = "DwellAtStart" -> Zero

LookAheadDen == 500

\* the look-ahead without Math.min
AheadUnclamped(tt) == FracAdd(tt, Frac(1, LookAheadDen))

\* const ahead = curve.getPointAt(Math.min(1, tt + 0.002))
Ahead(tt) == FracMin(One, FracAdd(tt, Frac(1, LookAheadDen)))

\* moving with the dwell at the start of the path left out
MovingOnlyEndDwell(raw, leg, dwell, cycle) ==
    ~(raw >= leg /\ raw < leg + dwell)

\* const moving = !(raw >= leg && raw < leg + dwell)
\*             && !(raw >= leg + dwell + leg && raw < cycle)
Moving(raw, leg, dwell, cycle) ==
    /\ ~(raw >= leg /\ raw < leg + dwell)
    /\ ~(raw >= leg + dwell + leg /\ raw < cycle)

\* the offset prop is a number of seconds
OffsetSeconds(offset) == Frac(offset, TicksPerSecond)

\* const step = Math.sin((tt + offset) * Math.PI * 6); position.y = pos.y + step * 0.02
Step(tt, offset) == SinPi(FracTimes(FracAdd(tt, OffsetSeconds(offset)), 6))

\* rotation.z = Math.sin((tt + offset) * Math.PI * 3) * 0.05
Sway(tt, offset) == SinPi(FracTimes(FracAdd(tt, OffsetSeconds(offset)), 3))

\* The frame callback when cycle is 0: raw = x % 0 is NaN and every
\* comparison with it is false, so the chain falls to its last else
\* (tt = 0) and moving = !false && !false.
WalkerFrameNaN(time, p) ==
    [ at     |-> time,
      nan    |-> TRUE,
      raw    |-> 0,
      branch |-> "DwellAtStart",
      tt     |-> Zero,
      ahead  |-> Ahead(Zero),
      moving |-> TRUE,
      bob    |-> Step(Zero, p.offset),
      roll   |-> Sway(Zero, p.offset) ]

\* What one run of the frame callback leaves in ref.current, having read
\* `time` from the clock.  tt, ahead: the curve parameters of position and
\* lookAt; bob: position.y - pos.y as the angle of step (times 0.02);
\* roll: rotation.z as the angle of the sway (times 0.05); nan: raw is NaN
\* (the field raw is then meaningless).
WalkerFrame(time, p) ==
    LET leg    == p.duration
        dwell  == p.dwell
        cycle  == Cycle(leg, dwell)
        raw    == Raw(time, p.offset, cycle)
        tt     == TT(raw, leg, dwell)
        moving == Moving(raw, leg, dwell, cycle)
    IN  IF cycle = 0 THEN WalkerFrameNaN(time, p)
        ELSE [ at     |-> time,
               nan    |-> FALSE,
               raw    |-> raw,
               branch |-> Branch(raw, leg, dwell),
               tt     |-> tt,
               ahead  |-> Ahead(tt),
               moving |-> moving,
               bob    |-> IF moving THEN Step(tt, p.offset) ELSE Zero,
               roll   |-> IF moving THEN Sway(tt, p.offset) ELSE Zero ]

\* showDialog with the end of the dwell counted in (raw <= leg + dwell)
showDialogInclusive(time, p) ==
    LET leg   == p.duration
        dwell == p.dwell
        cycle == leg + dwell + leg + dwell
        raw   == JsRem(time + p.offset, cycle)
    IN  raw >= leg /\ raw <= leg + dwell

\* showDialog with the start of the dwell left out (raw > leg)
showDialogLate(time, p) ==
    LET leg   == p.duration
        dwell == p.dwell
        cycle == leg + dwell + leg + dwell
        raw   == JsRem(time + p.offset, cycle)
    IN  raw > leg /\ raw < leg + dwell

\* const showDialog = (time) => { ... return raw >= leg && raw < leg + dwell }
\* (with cycle 0 raw is NaN and both comparisons are false)
showDialog(time, p) ==
    LET leg   == p.duration
        dwell == p.dwell
        cycle == leg + dwell + leg + dwell
        raw   == JsRem(time + p.offset, cycle)
    IN  cycle # 0 /\ raw >= leg /\ raw < leg + dwell

(***************************************************************************)
(* TimeSyncedDialog.                                                       *)
(***************************************************************************)
\* style={{ display: visibleRef.current ? 'block' : 'none' }}
DisplayStyle(visible) == IF visible THEN "block" ELSE "none"

(***************************************************************************)
(* State.                                                                  *)
(***************************************************************************)
Walkers == {1, 2}

\* props of a WalkerAvatar the spec calls valid: duration > 0, dwell >= 0,
\* offset >= 0
ValidProps ==
    [duration : 1..MaxLeg, dwell : 0..MaxDwell, offset : 0..MaxOffset]

\* the group before its first frame: at the origin, not rotated
NoFrame ==
    [ at |-> -1, nan |-> FALSE, raw |-> 0, branch |-> "none", tt |-> Zero, ahead |-> Zero,
      moving |-> FALSE, bob |-> Zero, roll |-> Zero ]

\* const visibleRef = useRef(false), and the first render
NoDialogFrame == [ at |-> -1, visibleRef |-> FALSE, display |-> DisplayStyle(FALSE) ]

\* the observer before the first frame
NoWindow == [ full |-> FALSE, shown |-> 0, rises |-> 0, last |-> FALSE ]

\* props that the spec calls invalid are among these: duration <= 0,
\* dwell < 0, offset < 0
AnyProps ==
    [duration : -1..MaxLeg, dwell : -1..MaxDwell, offset : -1..MaxOffset]

IsValid(p) == p.duration > 0 /\ p.dwell >= 0 /\ p.offset >= 0

\* <WalkerAvatar ... duration={8} dwell={3} offset={0} />, in seconds
OfficeDuration == 8
OfficeDwell    == 3
OfficeOffset   == 0

OfficeProps ==
    [ duration |-> OfficeDuration * TicksPerSecond,
      dwell    |-> OfficeDwell * TicksPerSecond,
      offset   |-> OfficeOffset * TicksPerSecond ]

\* the last tick the clock is read at
Horizon ==
    IF Cardinality(scene) > 1 THEN PairMaxTime
    ELSE IF \E w \in scene : props[w] = OfficeProps
         THEN OfficeSeconds * TicksPerSecond
         ELSE MaxTime

\* the period the spec gives the cycle: 2F + 2D
Period(p) == 2 * p.duration + 2 * p.dwell

(***************************************************************************)
(* The components outside the Canvas, before they are mounted.             *)
(***************************************************************************)
\* DemoRouteContent (frontend-react OfficeView.tsx) before its first render:
\* useState(null) for sessionId and websocket, nothing requested, no socket
DemoIdle ==
    [ phase     |-> "idle",     \* idle, mounted, unmounted
      init      |-> "idle",     \* where initializeSession stands
      sessionId |-> 0,          \* the sessionId state, 0 for null
      websocket |-> 0,          \* the websocket state: index in socks, 0 for null
      captured  |-> 0,          \* websocket as the effect's cleanup closure holds it
      socks     |-> << >> ]     \* every WebSocket constructed so far

\* the calls made on the ApiService instance
Calls == 1..MaxCalls

\* export const apiService = new ApiService(): sessionId = null, no session
\* created on the server, no call started
ApiIdle ==
    [ sessionId |-> 0,          \* this.sessionId, 0 for null
      created   |-> 0,          \* sessions the server has created for this instance
      calls     |-> [c \in Calls |-> [kind |-> "none", pc |-> "idle", sid |-> 0]] ]

\* the website flow before its first render: useState('idle'), useState(0)
WebIdle ==
    [ websiteFlow  |-> "idle",  \* the websiteFlow state
      rendered     |-> "idle",  \* websiteFlow as the last render (and its handlers) saw it
      webLoadIndex |-> 0,       \* the webLoadIndex state
      runs         |-> << >> ]  \* every pair of timers startWebsiteFlow created

\* WorkflowForm mounted with isOpen = false: the useState initial values
FormIdle ==
    [ isOpen      |-> FALSE,    \* the isOpen prop
      effect      |-> FALSE,    \* the [isOpen] effect is due after this render
      currentStep |-> "setup",
      formStep    |-> 1,
      track       |-> "with-space",
      values      |-> {},       \* the field ids that have a value
      paymentData |-> {},       \* the payment fields changed from their default
      seen        |-> {},       \* the steps shown since the form was last reset (observer)
      opens       |-> 0 ]       \* how often the form was opened, counted to 2 (observer)

\* the agents of the model: two ordinary ones and Jarvis
ChatAgents == {"mj", "alfred", "jarvis"}

\* no chat route is shown and localStorage holds no history
ChatIdle ==
    [ agentId  |-> "none",      \* the :agentId of the route, "none" off the chat route
      instance |-> 0,           \* which mount of AgentChatPage this is
      messages |-> << >>,       \* the messages state
      storage  |-> [a \in ChatAgents |-> << >>],   \* localStorage under vf:chat:<a>
      sent     |-> 0,           \* messages sent so far
      timers   |-> {} ]         \* the 500 ms timeouts not yet run

PagesIdle ==
    /\ demo = DemoIdle
    /\ api = ApiIdle
    /\ web = WebIdle
    /\ form = FormIdle
    /\ chat = ChatIdle

TypeOK ==
    /\ scene \subseteq Walkers
    /\ DOMAIN props = scene
    /\ \A w \in scene : props[w] \in ValidProps \cup AnyProps \cup {OfficeProps}
    /\ clock \in 0..Horizon
    /\ pending \subseteq scene \X {"walker", "dialog"}
    /\ DOMAIN obj = scene
    /\ DOMAIN dlg = scene
    /\ frames \in [scene -> 0..2]
    /\ DOMAIN win = scene
    /\ \A w \in scene : dlg[w].visibleRef \in BOOLEAN /\ obj[w].at <= clock

\* WalkerAvatar's body up to its return: the props are taken as they come
\* (nothing is checked, nothing is thrown)
MountedWith(ws, P) ==
    /\ scene = ws
    /\ props \in [scene -> P]
    /\ clock = 0
    /\ obj = [w \in scene |-> NoFrame]
    /\ dlg = [w \in scene |-> NoDialogFrame]
    /\ frames = [w \in scene |-> 0]
    /\ win = [w \in scene |-> NoWindow]
    /\ pending = {}
    /\ PagesIdle

Mounted(ws) == MountedWith(ws, ValidProps)

\* <WalkerAvatar key="mj-edith" ... />: the scene mounts a single walker
Init == Mounted({1})

\* a scene with two walkers on the same path with the same duration and
\* dwell, each with its own offset
InitPair ==
    /\ Mounted({1, 2})
    /\ props[1].duration = props[2].duration
    /\ props[1].dwell = props[2].dwell

(***************************************************************************)
(* Actions.  clock.getElapsedTime() returns the time elapsed since the     *)
(* clock started: a value no smaller than the one it returned last.        *)
(***************************************************************************)
\* the callback advancing tt by the time since the walker's last frame
\* instead of computing it from the reading
WalkerCallbackIncremental(w, t) ==
    /\ w \in scene
    /\ clock' = t
    /\ obj' = [obj EXCEPT ![w] =
                 IF obj[w].at < 0 THEN WalkerFrame(t, props[w])
                 ELSE [WalkerFrame(t, props[w]) EXCEPT
                         !.tt = FracMin(One, FracAdd(obj[w].tt,
                                    Frac(t - obj[w].at, props[w].duration)))]]
    /\ frames' = [frames EXCEPT ![w] = IF @ < 2 THEN @ + 1 ELSE @]

\* the callback writing through a ref shared by all WalkerAvatar instances
WalkerCallbackSharedRef(w, t) ==
    /\ w \in scene
    /\ clock' = t
    /\ obj' = [v \in scene |-> WalkerFrame(t, props[w])]
    /\ frames' = [frames EXCEPT ![w] = IF @ < 2 THEN @ + 1 ELSE @]

\* the callback without its else branch: in a dwell frame position.y and
\* rotation.z keep what the previous frame left
WalkerCallbackNoReset(w, t) ==
    /\ w \in scene
    /\ clock' = t
    /\ obj' = [obj EXCEPT ![w] =
                 IF WalkerFrame(t, props[w]).moving THEN WalkerFrame(t, props[w])
                 ELSE [WalkerFrame(t, props[w]) EXCEPT !.bob = obj[w].bob,
                                                       !.roll = obj[w].roll]]
    /\ frames' = [frames EXCEPT ![w] = IF @ < 2 THEN @ + 1 ELSE @]

\* WalkerAvatar's useFrame callback, reading t from the clock.  ref.current
\* is set when the group is committed, before the callback is subscribed,
\* so the early return is never taken for a mounted walker.
WalkerCallback(w, t) ==
    /\ w \in scene
    /\ clock' = t
    /\ obj' = [obj EXCEPT ![w] = WalkerFrame(t, props[w])]
    /\ frames' = [frames EXCEPT ![w] = IF @ < 2 THEN @ + 1 ELSE @]

\* TimeSyncedDialog's useFrame callback, reading t from the clock:
\* visibleRef.current = visibleFor(clock.getElapsedTime())
DialogCallback(w, t) ==
    /\ w \in scene
    /\ clock' = t
    /\ dlg' = [dlg EXCEPT ![w].at = t,
                          ![w].visibleRef = showDialog(t, props[w])]

UseFrameWalker(w) ==
    \E t \in clock..Horizon :
        /\ WalkerCallback(w, t)
        /\ UNCHANGED <<scene, props, dlg, win, pending, pages>>

UseFrameDialog(w) ==
    \E t \in clock..Horizon :
        /\ DialogCallback(w, t)
        /\ UNCHANGED <<scene, props, obj, frames, win, pending, pages>>

\* React renders TimeSyncedDialog again (its parent rendered again): the
\* style is computed from visibleRef.current as it is now
Render(w) ==
    /\ w \in scene
    /\ dlg' = [dlg EXCEPT ![w].display = DisplayStyle(dlg[w].visibleRef)]
    /\ UNCHANGED <<scene, props, clock, obj, frames, win, pending, pages>>

Next ==
    \/ \E w \in scene : UseFrameWalker(w)
    \/ \E w \in scene : UseFrameDialog(w)
    \/ \E w \in scene : Render(w)

Spec == Init /\ [][Next]_vars

\* Two walkers, each framed on its own cadence: a frame of walker w calls
\* its two callbacks with one reading of the clock, and either walker may
\* miss any number of the other's frames.
FrameOf(w) ==
    \E t \in clock..Horizon :
        /\ WalkerCallback(w, t)
        /\ DialogCallback(w, t)
        /\ UNCHANGED <<scene, props, win, pending, pages>>

NextPair == \E w \in scene : FrameOf(w)

SpecPair == InitPair /\ [][NextPair]_vars

(***************************************************************************)
(* A render loop of one frame a tick: each frame calls both callbacks of   *)
(* the walker with the same reading of the clock.  The observer win sums   *)
(* the dialog gate over the running cycle; a cycle starts where            *)
(* (elapsed + offset) is a multiple of 2F + 2D.                            *)
(***************************************************************************)
Observe(w, t, visible) ==
    LET r    == (t + props[w].offset) % Period(props[w])
        base == IF r = 0 THEN [NoWindow EXCEPT !.full = TRUE] ELSE win[w]
    IN  [ full  |-> base.full,
          shown |-> base.shown + (IF visible THEN 1 ELSE 0),
          rises |-> base.rises + (IF visible /\ ~base.last THEN 1 ELSE 0),
          last  |-> visible ]

SweepFrame(w) ==
    LET t == IF frames[w] = 0 THEN 0 ELSE clock + 1
    IN  /\ t <= MaxTime
        /\ WalkerCallback(w, t)
        /\ DialogCallback(w, t)
        /\ win' = [win EXCEPT ![w] = Observe(w, t, dlg'[w].visibleRef)]
        /\ UNCHANGED <<scene, props, pending, pages>>

NextSweep == \E w \in scene : SweepFrame(w)

SpecSweep == Init /\ [][NextSweep]_vars

(***************************************************************************)
(* A walker mounted with whatever props it is given.                       *)
(***************************************************************************)
InitAny == MountedWith({1}, AnyProps)

SpecAny == InitAny /\ [][Next]_vars

(***************************************************************************)
(* The walker Office3D mounts: duration 8, dwell 3, offset 0.              *)
(***************************************************************************)
InitOffice == MountedWith({1}, {OfficeProps})

SpecOffice == InitOffice /\ [][Next]_vars

(***************************************************************************)
(* The render loop: every frame it calls each subscribed callback once.    *)
(* Each callback asks the clock for the elapsed time itself, so the two    *)
(* callbacks of a walker get two readings, the later no smaller than the   *)
(* earlier.                                                                *)
(***************************************************************************)
Callbacks == scene \X {"walker", "dialog"}

BeginFrame ==
    /\ pending = {}
    /\ clock < Horizon
    /\ pending' = Callbacks
    /\ UNCHANGED <<scene, props, clock, obj, dlg, frames, win, pages>>

CallWalker(w) ==
    /\ <<w, "walker">> \in pending
    /\ \E t \in clock..Horizon : WalkerCallback(w, t)
    /\ pending' = pending \ {<<w, "walker">>}
    /\ UNCHANGED <<scene, props, dlg, win, pages>>

CallDialog(w) ==
    /\ <<w, "dialog">> \in pending
    /\ \E t \in clock..Horizon : DialogCallback(w, t)
    /\ pending' = pending \ {<<w, "dialog">>}
    /\ UNCHANGED <<scene, props, obj, frames, win, pages>>

NextLoop ==
    \/ BeginFrame
    \/ \E w \in scene : CallWalker(w)
    \/ \E w \in scene : CallDialog(w)

SpecLoop == Init /\ [][NextLoop]_vars

(***************************************************************************)
(* DemoRouteContent of frontend-react OfficeView.tsx: the session and the  *)
(* WebSocket.  A socket is [state, delay, retried, session]: delay is the  *)
(* number of seconds left on the reconnect timeout its onclose armed       *)
(* (-1: none armed), retried whether that timeout has run.                 *)
(***************************************************************************)
ReconnectDelay == 3    \* setTimeout(..., 3000), in seconds
TheSession     == 1    \* the session_id the server answers with

NewSocket(sid) ==
    [state |-> "connecting", delay |-> -1, retried |-> FALSE, session |-> sid]

\* no component besides the demo page takes part
NoWalkers == UNCHANGED <<scene, props, clock, obj, dlg, frames, win, pending>>

\* an action of the demo page of frontend-react
OnlyDemo == NoWalkers /\ UNCHANGED <<api, web, form, chat>>

\* setupWebSocket(sessionId): new WebSocket(...), the handlers,
\* setWebsocket(ws) (a state update of an unmounted component is dropped)
SetupWebSocket(d, sid) ==
    [d EXCEPT !.socks = Append(@, NewSocket(sid)),
              !.websocket = IF d.phase = "mounted" THEN Len(d.socks) + 1 ELSE @]

\* the first render and the effect with deps []: initializeSession() is
\* called, and the cleanup closes over the websocket of this render
DemoMount ==
    /\ demo.phase = "idle"
    /\ demo' = [demo EXCEPT !.phase = "mounted", !.init = "sessions",
                            !.captured = demo.websocket]
    /\ OnlyDemo

\* POST /api/sessions answers: setSessionId, then GET /api/agents is awaited
SessionCreated ==
    /\ demo.init = "sessions"
    /\ demo' = [demo EXCEPT !.init = "agents",
                            !.sessionId = IF demo.phase = "mounted"
                                          THEN TheSession ELSE @]
    /\ OnlyDemo

\* GET /api/agents answers: setupWebSocket(sessionData.session_id)
AgentsLoaded ==
    /\ demo.init = "agents"
    /\ Len(demo.socks) < MaxSockets
    /\ demo' = SetupWebSocket([demo EXCEPT !.init = "done"], TheSession)
    /\ OnlyDemo

\* either request fails: the catch logs the error, nothing else happens
InitFailed ==
    /\ demo.init \in {"sessions", "agents"}
    /\ demo' = [demo EXCEPT !.init = "failed"]
    /\ OnlyDemo

\* the connection is established
SocketOpens(i) ==
    /\ demo.socks[i].state = "connecting"
    /\ demo' = [demo EXCEPT !.socks[i].state = "open"]
    /\ OnlyDemo

\* the socket closes (refused, dropped by the server or the network, or
\* closed by the page): onclose arms the reconnect timeout
SocketCloses(i) ==
    /\ demo.socks[i].state \in {"connecting", "open", "closing"}
    /\ demo' = [demo EXCEPT !.socks[i].state = "closed",
                            !.socks[i].delay = ReconnectDelay]
    /\ OnlyDemo

\* a second passes; a timeout that is due runs before the next second
Second ==
    /\ \E i \in DOMAIN demo.socks : demo.socks[i].delay > 0
    /\ \A i \in DOMAIN demo.socks :
           ~(demo.socks[i].delay = 0 /\ ~demo.socks[i].retried)
    /\ demo' = [demo EXCEPT !.socks =
                   [i \in DOMAIN demo.socks |->
                       IF demo.socks[i].delay > 0
                       THEN [demo.socks[i] EXCEPT !.delay = @ - 1]
                       ELSE demo.socks[i]]]
    /\ OnlyDemo

\* the timeout of socket i runs: setupWebSocket(sessionId)
Reconnect(i) ==
    /\ demo.socks[i].delay = 0
    /\ ~demo.socks[i].retried
    /\ Len(demo.socks) < MaxSockets
    /\ demo' = SetupWebSocket([demo EXCEPT !.socks[i].retried = TRUE],
                              demo.socks[i].session)
    /\ OnlyDemo

\* the page unmounts: the cleanup runs `if (websocket) websocket.close()`
\* with the websocket it closed over
DemoUnmount ==
    /\ demo.phase = "mounted"
    /\ demo' =
          LET d == [demo EXCEPT !.phase = "unmounted"]
              c == demo.captured
          IN  IF c # 0 /\ d.socks[c].state \in {"connecting", "open"}
              THEN [d EXCEPT !.socks[c].state = "closing"]
              ELSE d
    /\ OnlyDemo

NextDemo ==
    \/ DemoMount
    \/ SessionCreated
    \/ AgentsLoaded
    \/ InitFailed
    \/ \E i \in DOMAIN demo.socks : SocketOpens(i)
    \/ \E i \in DOMAIN demo.socks : SocketCloses(i)
    \/ Second
    \/ \E i \in DOMAIN demo.socks : Reconnect(i)
    \/ DemoUnmount

SpecDemo == MountedWith({}, ValidProps) /\ [][NextDemo]_vars

(***************************************************************************)
(* ApiService (tmpapp copy/src/services/apiService.ts).  A call is         *)
(* [kind, pc, sid]: pc is where the async method stands (idle, creating:   *)
(* awaiting createSession, sent: its request is out with session_id sid,   *)
(* done, failed).  The server numbers the sessions it creates 1, 2, ...    *)
(***************************************************************************)
ApiKinds == {"sendMessage", "generateLogo"}

\* an action of the ApiService
OnlyApi == NoWalkers /\ UNCHANGED <<demo, web, form, chat>>

\* the request of call c goes out with session_id: this.sessionId!
SendRequest(a, c) ==
    [a EXCEPT !.calls[c].pc = "sent", !.calls[c].sid = a.sessionId]

\* sendMessage / generateLogo is called: `if (!this.sessionId) await
\* this.createSession()`, whose fetch goes out; otherwise the request is
\* built and sent at once
ApiCall(c, kind) ==
    /\ api.calls[c].pc = "idle"
    /\ api' = LET a == [api EXCEPT !.calls[c].kind = kind]
              IN  IF a.sessionId = 0
                  THEN [a EXCEPT !.calls[c].pc = "creating"]
                  ELSE SendRequest(a, c)
    /\ OnlyApi

\* POST /api/sessions of call c answers ok: this.sessionId =
\* data.session_id, createSession returns and the call goes on to send
CreateSessionOk(c) ==
    /\ api.calls[c].pc = "creating"
    /\ api' = SendRequest([api EXCEPT !.created = @ + 1,
                                      !.sessionId = api.created + 1], c)
    /\ OnlyApi

\* POST /api/sessions of call c answers not ok: createSession throws and
\* the call rejects before any request is built
CreateSessionFails(c) ==
    /\ api.calls[c].pc = "creating"
    /\ api' = [api EXCEPT !.calls[c].pc = "failed"]
    /\ OnlyApi

\* the request of call c is answered
RequestAnswered(c) ==
    /\ api.calls[c].pc = "sent"
    /\ \E ok \in BOOLEAN :
           api' = [api EXCEPT !.calls[c].pc = IF ok THEN "done" ELSE "failed"]
    /\ OnlyApi

NextApi ==
    \/ \E c \in Calls : \E kind \in ApiKinds : ApiCall(c, kind)
    \/ \E c \in Calls : CreateSessionOk(c)
    \/ \E c \in Calls : CreateSessionFails(c)
    \/ \E c \in Calls : RequestAnswered(c)

SpecApi == MountedWith({}, ValidProps) /\ [][NextApi]_vars

(***************************************************************************)
(* The website flow (startWebsiteFlow and the ready buttons).  A run is    *)
(* the pair of timers one call of startWebsiteFlow created: [idx, fired,   *)
(* live], idx the closure's counter, fired how often the interval ran,     *)
(* live whether the interval and the timeout are still active.  Handlers   *)
(* see the websiteFlow of the render that created them.                    *)
(***************************************************************************)
LoadingSteps == 8        \* WEBSITE_LOADING_STEPS.length
StepMs       == 1800     \* const stepMs
TotalMs      == 15000    \* const totalMs

\* how often the interval runs before the timeout is due
StepsPerRun == TotalMs \div StepMs

Min(a, b) == IF a < b THEN a ELSE b

\* an action of the website flow
OnlyWeb == NoWalkers /\ UNCHANGED <<demo, api, form, chat>>

\* a click on the start button, handled by the startWebsiteFlow of the
\* last render: `if (websiteFlow !== 'idle') return`, else both setters,
\* the interval and the timeout
StartWebsiteFlow ==
    /\ web.rendered = "idle"
    /\ Len(web.runs) < MaxRuns
    /\ web' = [web EXCEPT !.websiteFlow = "loading",
                          !.webLoadIndex = 0,
                          !.runs = Append(@, [idx |-> 0, fired |-> 0, live |-> TRUE])]
    /\ OnlyWeb

\* React renders the component again with the state as it is now
WebRender ==
    /\ web.rendered # web.websiteFlow
    /\ web' = [web EXCEPT !.rendered = web.websiteFlow]
    /\ OnlyWeb

\* the interval of run i runs: idx = Math.min(idx + 1, length - 1),
\* setWebLoadIndex(idx)
StepTimer(i) ==
    /\ web.runs[i].live
    /\ web.runs[i].fired < StepsPerRun
    /\ LET idx == Min(web.runs[i].idx + 1, LoadingSteps - 1)
       IN  web' = [web EXCEPT !.runs[i].idx = idx,
                              !.runs[i].fired = @ + 1,
                              !.webLoadIndex = idx]
    /\ OnlyWeb

\* the timeout of run i runs: clearInterval(stepTimer), setWebsiteFlow('ready')
CompletionTimeout(i) ==
    /\ web.runs[i].live
    /\ web.runs[i].fired = StepsPerRun
    /\ web' = [web EXCEPT !.runs[i].live = FALSE, !.websiteFlow = "ready"]
    /\ OnlyWeb

\* Open demo or Dismiss, shown while the rendered flow is ready:
\* setWebsiteFlow('idle')
BackToIdle ==
    /\ web.rendered = "ready"
    /\ web' = [web EXCEPT !.websiteFlow = "idle"]
    /\ OnlyWeb

NextWeb ==
    \/ StartWebsiteFlow
    \/ WebRender
    \/ \E i \in DOMAIN web.runs : StepTimer(i)
    \/ \E i \in DOMAIN web.runs : CompletionTimeout(i)
    \/ BackToIdle

SpecWeb == MountedWith({}, ValidProps) /\ [][NextWeb]_vars

(***************************************************************************)
(* WorkflowForm (tmpapp copy/src/components/WorkflowForm.tsx).  The parent *)
(* owns isOpen; the form's handlers exist only while it is open, and React *)
(* runs the effect of a render before it handles the next event.           *)
(***************************************************************************)
WorkflowSteps == <<"setup", "data-intake", "handoff", "payment", "dashboard">>

\* getStepIndex
StepIndex(step) == CHOOSE i \in DOMAIN WorkflowSteps : WorkflowSteps[i] = step

Fields      == {"legalBusinessName", "uploadEinLetter"}
PaymentKeys == {"cardNumber", "expedited"}

\* an action of the form
OnlyForm == NoWalkers /\ UNCHANGED <<demo, api, web, chat>>

\* the handlers of the form can be reached
FormShown == form.isOpen /\ ~form.effect

\* setCurrentStep(step), and the step it shows from now on
GoTo(step) ==
    form' = [form EXCEPT !.currentStep = step, !.seen = @ \cup {step}]

\* the effect leaves values and paymentData as they are
ResetOnOpenKeepsValues ==
    /\ form.effect
    /\ form' = [form EXCEPT !.effect = FALSE,
                            !.currentStep = IF form.isOpen THEN "setup" ELSE @,
                            !.formStep = IF form.isOpen THEN 1 ELSE @,
                            !.seen = IF form.isOpen THEN {"setup"} ELSE @]
    /\ OnlyForm

\* the effect with deps [isOpen]: if (isOpen) { setCurrentStep('setup');
\* setFormStep(1); setValues({}); setPaymentData({...}); ... }
ResetOnOpen ==
    /\ form.effect
    /\ form' = IF form.isOpen
               THEN [form EXCEPT !.effect = FALSE,
                                 !.currentStep = "setup",
                                 !.formStep = 1,
                                 !.values = {},
                                 !.paymentData = {},
                                 !.seen = {"setup"}]
               ELSE [form EXCEPT !.effect = FALSE]
    /\ OnlyForm

\* the parent renders the form with isOpen = true
FormOpen ==
    /\ ~form.isOpen
    /\ ~form.effect
    /\ form' = [form EXCEPT !.isOpen = TRUE, !.effect = TRUE,
                            !.opens = IF @ < 2 THEN @ + 1 ELSE @]
    /\ OnlyForm

\* onClose (backdrop, close button, handleDashboardClose): the parent
\* renders the form with isOpen = false
FormClose ==
    /\ FormShown
    /\ form' = [form EXCEPT !.isOpen = FALSE, !.effect = TRUE]
    /\ OnlyForm

\* setup, sub-step 1: the two track cards and Continue Setup
ChooseTrack(t) ==
    /\ FormShown /\ form.currentStep = "setup" /\ form.formStep = 1
    /\ form' = [form EXCEPT !.track = t]
    /\ OnlyForm

SetFormStep(n) ==
    /\ FormShown /\ form.currentStep = "setup" /\ form.formStep = 3 - n
    /\ form' = [form EXCEPT !.formStep = n]
    /\ OnlyForm

\* an input of setup (sub-step 2) or data-intake changes
SetValue(f) ==
    /\ FormShown
    /\ \/ form.currentStep = "setup" /\ form.formStep = 2
       \/ form.currentStep = "data-intake"
    /\ form' = [form EXCEPT !.values = @ \cup {f}]
    /\ OnlyForm

\* an input of the payment step changes
SetPayment(k) ==
    /\ FormShown /\ form.currentStep = "payment"
    /\ form' = [form EXCEPT !.paymentData = @ \cup {k}]
    /\ OnlyForm

\* the buttons that call setCurrentStep
StepButton ==
    /\ FormShown
    /\ \/ form.currentStep = "setup" /\ form.formStep = 2 /\ GoTo("data-intake")
       \/ form.currentStep = "data-intake" /\ GoTo("setup")
       \/ form.currentStep = "data-intake" /\ GoTo("handoff")
       \/ form.currentStep = "handoff" /\ GoTo("payment")
       \/ form.currentStep = "payment" /\ GoTo("handoff")
       \/ form.currentStep = "payment" /\ GoTo("dashboard")
    /\ OnlyForm

NextForm ==
    \/ FormOpen
    \/ ResetOnOpen
    \/ FormClose
    \/ \E t \in {"with-space", "no-space"} : ChooseTrack(t)
    \/ \E n \in {1, 2} : SetFormStep(n)
    \/ \E f \in Fields : SetValue(f)
    \/ \E k \in PaymentKeys : SetPayment(k)
    \/ StepButton

SpecForm == MountedWith({}, ValidProps) /\ [][NextForm]_vars

(***************************************************************************)
(* AgentChatPage (pages/AgentChat).  A message is [from, conv, id]: conv   *)
(* is the agent of the conversation it belongs to, id the number of the    *)
(* send it is or answers (0 for a greeting).  An action is a handler with  *)
(* the render and the effects that follow it; the load effect sets the     *)
(* messages of the new agent and the persist effect leaves them under the  *)
(* storage key of the route.  The route /chat/:agentId keeps one instance  *)
(* of the page while only the parameter changes.                           *)
(***************************************************************************)
Greeting(a) == [from |-> "agent", conv |-> a, id |-> 0]

\* an action of the chat page
OnlyChat == NoWalkers /\ UNCHANGED <<demo, api, web, form>>

\* the load effect: the stored history, or the greeting if there is none
Loaded(a) ==
    IF chat.storage[a] # << >> THEN chat.storage[a] ELSE <<Greeting(a)>>

\* the page is shown for agent a: mounted anew from another route, or the
\* same instance with a new parameter; load effect, then persist effect
ShowAgent(a) ==
    /\ chat.agentId # a
    /\ chat.agentId = "none" => chat.instance < MaxMounts
    /\ chat' = [chat EXCEPT !.agentId = a,
                            !.instance = IF chat.agentId = "none" THEN @ + 1 ELSE @,
                            !.messages = Loaded(a),
                            !.storage[a] = Loaded(a)]
    /\ OnlyChat

\* navigate to a route outside the chat: the page unmounts, its timeouts
\* stay
LeaveChat ==
    /\ chat.agentId # "none"
    /\ chat' = [chat EXCEPT !.agentId = "none", !.messages = << >>]
    /\ OnlyChat

\* send() with a non-empty input: Jarvis navigates to '/', any other agent
\* gets the user message appended and a reply scheduled
Send ==
    /\ chat.agentId # "none"
    /\ chat.sent < MaxSends
    /\ chat' =
          IF chat.agentId = "jarvis"
          THEN [chat EXCEPT !.agentId = "none", !.messages = << >>]
          ELSE LET k    == chat.sent + 1
                   next == Append(chat.messages,
                                  [from |-> "user", conv |-> chat.agentId, id |-> k])
               IN  [chat EXCEPT !.sent = k,
                                !.messages = next,
                                !.storage[chat.agentId] = next,
                                !.timers = @ \cup {[conv |-> chat.agentId, id |-> k,
                                                    instance |-> chat.instance]}]
    /\ OnlyChat

\* a timeout runs: setMessages(m => [...m, reply]) on the instance that
\* set it, persisted under the storage key of the route as it is now; an
\* update of an unmounted instance is dropped
ReplyTimeout(t) ==
    /\ t \in chat.timers
    /\ chat' =
          IF chat.agentId # "none" /\ chat.instance = t.instance
          THEN LET next == Append(chat.messages,
                                  [from |-> "agent", conv |-> t.conv, id |-> t.id])
               IN  [chat EXCEPT !.timers = @ \ {t},
                                !.messages = next,
                                !.storage[chat.agentId] = next]
          ELSE [chat EXCEPT !.timers = @ \ {t}]
    /\ OnlyChat

NextChat ==
    \/ \E a \in ChatAgents : ShowAgent(a)
    \/ LeaveChat
    \/ Send
    \/ \E t \in chat.timers : ReplyTimeout(t)

SpecChat == MountedWith({}, ValidProps) /\ [][NextChat]_vars

(***************************************************************************)
(* Claims.                                                                 *)
(***************************************************************************)
\* raw as the spec defines it, for a frame that read t from the clock
SpecRaw(t, p) == (t + p.offset) % Period(p)

\* the walker and its dialog were last framed with the same reading
SameReading(w) == obj[w].at >= 0 /\ dlg[w].at = obj[w].at

\* C1: for every valid config and every elapsed time, the dialog gate
\* showDialog(t) is true exactly when the branch the frame callback takes
\* for the same t is DwellAtEnd, that is when raw lies in [F, F+D); it is
\* false in Forward, Backward and DwellAtStart.
C1_DialogIffDwellAtEnd ==
    \A w \in scene :
        SameReading(w) =>
            LET F == props[w].duration
                D == props[w].dwell
                r == SpecRaw(obj[w].at, props[w])
            IN  /\ dlg[w].visibleRef <=> (obj[w].branch = "DwellAtEnd")
                /\ (obj[w].branch = "DwellAtEnd") <=> (r >= F /\ r < F + D)

C1_Witness ==
    \E w \in scene :
        /\ SameReading(w)
        /\ obj[w].at > Period(props[w])
        /\ obj[w].branch = "DwellAtEnd"
        /\ dlg[w].visibleRef

\* C2: after every frame the style the bubble is rendered with is 'block'
\* exactly when the walker is in DwellAtEnd at that frame's elapsed time.
C2_BubbleShownIffDwellAtEnd ==
    \A w \in scene :
        SameReading(w) =>
            ((dlg[w].display = "block") <=> (obj[w].branch = "DwellAtEnd"))

\* C3: the frame computation is a function of (elapsed, offset, config)
\* alone: two walkers with the same props, framed on different cadences
\* (either may have missed any of the other's frames), leave the same curve
\* parameter, moving flag, bob, roll and dialog gate whenever their last
\* frames read the same elapsed time.
C3_HistoryIndependent ==
    (scene = {1, 2} /\ props[1] = props[2]) =>
        /\ (obj[1].at = obj[2].at) => (obj[1] = obj[2])
        /\ (dlg[1].at = dlg[2].at) => (dlg[1].visibleRef = dlg[2].visibleRef)

C3_Witness ==
    /\ scene = {1, 2}
    /\ props[1] = props[2]
    /\ obj[1].at = obj[2].at
    /\ dlg[1].at = dlg[2].at
    /\ obj[1].at > 1
    /\ frames[1] = 1
    /\ frames[2] = 2
    /\ obj[1].moving
    /\ obj[1].tt # Zero

\* C4: the phase and localT computed at elapsed t equal those computed at
\* t + (2F + 2D), for every valid config and offset.
C4_Periodic ==
    \A w \in scene :
        obj[w].at >= Period(props[w]) =>
            LET q == WalkerFrame(obj[w].at - Period(props[w]), props[w])
            IN  /\ obj[w].branch = q.branch
                /\ obj[w].tt = q.tt

C4_Witness ==
    \E w \in scene :
        /\ obj[w].at >= Period(props[w]) + 1
        /\ props[w].dwell > 0
        /\ props[w].offset > 0
        /\ obj[w].branch = "Backward"
        /\ obj[w].tt # One

\* C5: for every raw in [0, 2F+2D) the frame computation selects exactly one
\* phase: Forward on [0, F), DwellAtEnd on [F, F+D), Backward on
\* [F+D, 2F+D), DwellAtStart on [2F+D, 2F+2D); so the phases of a cycle come
\* in that order.
C5_PhaseSegments ==
    \A w \in scene :
        obj[w].at >= 0 =>
            LET F == props[w].duration
                D == props[w].dwell
                r == SpecRaw(obj[w].at, props[w])
                b == obj[w].branch
            IN  /\ b \in {"Forward", "DwellAtEnd", "Backward", "DwellAtStart"}
                /\ (b = "Forward")      <=> (0 <= r /\ r < F)
                /\ (b = "DwellAtEnd")   <=> (F <= r /\ r < F + D)
                /\ (b = "Backward")     <=> (F + D <= r /\ r < 2 * F + D)
                /\ (b = "DwellAtStart") <=> (2 * F + D <= r /\ r < 2 * F + 2 * D)

C5_Witness ==
    \E w \in scene :
        /\ obj[w].branch = "DwellAtStart"
        /\ props[w].dwell > 1
        /\ SpecRaw(obj[w].at, props[w]) = Period(props[w]) - 1
        /\ obj[w].at > Period(props[w])

\* C6: within every full cycle of length 2F+2D the dialog gate is true for
\* exactly dwell ticks, in one contiguous run, and false for the other
\* 2F + D; with dwell = 0 it is never true.
C6_GateDurationPerCycle ==
    \A w \in scene :
        frames[w] > 0 =>
            LET F == props[w].duration
                D == props[w].dwell
                r == SpecRaw(clock, props[w])
            IN  /\ (D = 0) => ~dlg[w].visibleRef
                /\ win[w].full => (win[w].shown <= D /\ win[w].rises <= 1)
                /\ (win[w].full /\ r = Period(props[w]) - 1) =>
                       /\ win[w].shown = D
                       /\ win[w].rises = (IF D > 0 THEN 1 ELSE 0)
                       /\ Period(props[w]) - win[w].shown = 2 * F + D

C6_Witness ==
    \E w \in scene :
        /\ win[w].full
        /\ SpecRaw(clock, props[w]) = Period(props[w]) - 1
        /\ props[w].dwell = 2
        /\ props[w].offset > 0
        /\ win[w].shown = 2
        /\ win[w].rises = 1

\* C7, as stated: for every valid config, dwell = 0 included, at an elapsed
\* time whose raw equals F the curve parameter is 1 and the dialog gate is
\* true.
C7_AtRawF_EndAndGate ==
    \A w \in scene :
        (SameReading(w) /\ SpecRaw(obj[w].at, props[w]) = props[w].duration) =>
            /\ obj[w].tt = One
            /\ dlg[w].visibleRef

\* C7, amended: at an elapsed time whose raw equals F the curve parameter
\* is 1 for every valid config; the dialog gate is true there when
\* dwell > 0 and false when dwell = 0.
C7_AtRawF_EndAndGateIfDwell ==
    \A w \in scene :
        (SameReading(w) /\ SpecRaw(obj[w].at, props[w]) = props[w].duration) =>
            /\ obj[w].tt = One
            /\ dlg[w].visibleRef <=> (props[w].dwell > 0)

C7_Witness ==
    \E w \in scene :
        /\ SameReading(w)
        /\ SpecRaw(obj[w].at, props[w]) = props[w].duration
        /\ obj[w].at > Period(props[w])
        /\ props[w].dwell > 0
        /\ obj[w].tt = One
        /\ dlg[w].visibleRef

\* C8, as stated: for every valid config and offset, the frame that reads
\* elapsed = offset puts the walker at curve parameter 0.
C8_AtOffset_Start ==
    \A w \in scene :
        (obj[w].at >= 0 /\ obj[w].at = props[w].offset) => obj[w].tt = Zero

\* C8, amended: for every valid config and offset, a frame that reads an
\* elapsed time with (elapsed + offset) a multiple of the cycle length
\* (raw = 0; elapsed 0 when offset = 0) puts the walker at curve parameter
\* 0, in the Forward phase.
C8_AtRawZero_Start ==
    \A w \in scene :
        (obj[w].at >= 0 /\ SpecRaw(obj[w].at, props[w]) = 0) =>
            /\ obj[w].tt = Zero
            /\ obj[w].branch = "Forward"

C8_Witness ==
    \E w \in scene :
        /\ obj[w].at > 0
        /\ props[w].offset > 0
        /\ SpecRaw(obj[w].at, props[w]) = 0
        /\ obj[w].tt = Zero

\* the cycle a reading falls in
CycleIndex(t, p) == (t + p.offset) \div Period(p)

\* C9: throughout Backward localT = 1 - (raw - F - D) / F, and of two
\* frames in the same Backward segment the later one has the strictly
\* smaller localT; localT is 1 at the start of the segment and stays above 0.
C9_BackwardDecreasing ==
    [][ \A w \in scene :
          LET p  == props[w]
              F  == p.duration
              D  == p.dwell
              r2 == SpecRaw(obj'[w].at, p)
          IN  /\ (obj'[w].branch = "Backward") =>
                    /\ obj'[w].tt = FracSub(One, Frac(r2 - F - D, F))
                    /\ FracLess(Zero, obj'[w].tt)
                    /\ FracLeq(obj'[w].tt, One)
                    /\ (obj'[w].tt = One) <=> (r2 = F + D)
              /\ ( /\ obj[w].branch = "Backward"
                   /\ obj'[w].branch = "Backward"
                   /\ obj[w].at < obj'[w].at
                   /\ CycleIndex(obj[w].at, p) = CycleIndex(obj'[w].at, p) )
                 => FracLess(obj'[w].tt, obj[w].tt)
      ]_vars

C9_Witness ==
    \E w \in scene :
        /\ obj[w].branch = "Backward"
        /\ frames[w] = 2
        /\ props[w].dwell > 0
        /\ SpecRaw(obj[w].at, props[w]) > props[w].duration + props[w].dwell
        /\ FracLess(Zero, obj[w].tt)
        /\ FracLess(obj[w].tt, One)

\* C10: two walkers with the same path, duration and dwell and offsets o1
\* and o2: every output of walker 2 at elapsed t (curve parameter, phase,
\* moving flag, bob, roll, dialog gate) equals that of walker 1 at elapsed
\* t + (o2 - o1).
C10_OffsetShiftsTrajectory ==
    ( /\ scene = {1, 2}
      /\ obj[1].at >= 0
      /\ obj[2].at >= 0
      /\ obj[1].at = obj[2].at + (props[2].offset - props[1].offset) ) =>
        /\ obj[2].tt = obj[1].tt
        /\ obj[2].branch = obj[1].branch
        /\ obj[2].moving = obj[1].moving
        /\ obj[2].bob = obj[1].bob
        /\ obj[2].roll = obj[1].roll
        /\ dlg[2].visibleRef = dlg[1].visibleRef

\* C11: the heading faces the direction of travel: in Forward the
\* look-ahead parameter is greater than localT (localT + epsilon, clamped
\* to 1), in Backward it is smaller than localT.
C11_HeadingFollowsTravel ==
    \A w \in scene :
        /\ (obj[w].branch = "Forward") =>
               /\ FracLess(obj[w].tt, obj[w].ahead)
               /\ FracLeq(obj[w].ahead, One)
        /\ (obj[w].branch = "Backward") => FracLess(obj[w].ahead, obj[w].tt)

\* the walker is in one of the two dwell phases
InDwell(w) == obj[w].branch \in {"DwellAtEnd", "DwellAtStart"}

\* C12: after every frame whose phase is DwellAtEnd or DwellAtStart the
\* vertical offset from the path and the roll are exactly 0, whatever the
\* previous frame left; bob and sway are applied only in frames whose phase
\* is Forward or Backward.
C12_NoBobInDwell ==
    \A w \in scene :
        obj[w].at >= 0 =>
            /\ InDwell(w) => (obj[w].bob = Zero /\ obj[w].roll = Zero)
            /\ obj[w].moving <=> (obj[w].branch \in {"Forward", "Backward"})
            /\ (obj[w].bob # Zero \/ obj[w].roll # Zero) => obj[w].moving

C12_Witness ==
    \E w \in scene :
        /\ obj[w].branch = "DwellAtEnd"
        /\ frames[w] = 2
        /\ props[w].offset > 0
        /\ obj[w].at > Period(props[w])
        /\ obj[w].bob = Zero
        /\ obj[w].roll = Zero

\* C13: a walker constructed with forwardDuration <= 0, dwellDuration < 0
\* or offset < 0 fails at construction: no frame is ever computed for it.
\* (The number of waypoints is not part of the model.)
C13_InvalidPropsNeverFramed ==
    \A w \in scene :
        ~IsValid(props[w]) => (obj[w].at < 0 /\ dlg[w].at < 0)

\* a curve parameter in [0, 1]
InUnit(x) == IsFinite(x) /\ FracLeq(Zero, x) /\ FracLeq(x, One)

\* C14: for every valid config and every elapsed t >= 0 the position
\* parameter tt and the look-ahead parameter lie in [0, 1], no division by
\* zero occurs (cycle and leg are not 0, nothing is infinite or NaN) and
\* every frame is computed.
C14_EvaluationTotal ==
    \A w \in scene :
        obj[w].at >= 0 =>
            /\ Cycle(props[w].duration, props[w].dwell) # 0
            /\ props[w].duration # 0
            /\ ~obj[w].nan
            /\ InUnit(obj[w].tt)
            /\ InUnit(obj[w].ahead)
            /\ IsFinite(obj[w].bob)
            /\ IsFinite(obj[w].roll)

C14_Witness ==
    \E w \in scene :
        /\ obj[w].at > Period(props[w])
        /\ obj[w].branch = "Backward"
        /\ obj[w].tt = One
        /\ obj[w].ahead = One

\* C15: with dwell = 0 and duration > 0 the frame computation never
\* selects DwellAtEnd or DwellAtStart: it is Forward for raw < F and
\* Backward from raw = F on, the moving flag is always true, and nothing
\* is divided by zero.
C15_ZeroDwell ==
    \A w \in scene :
        (obj[w].at >= 0 /\ props[w].dwell = 0) =>
            LET F == props[w].duration
                r == SpecRaw(obj[w].at, props[w])
            IN  /\ obj[w].branch \in {"Forward", "Backward"}
                /\ (obj[w].branch = "Forward") <=> (r < F)
                /\ obj[w].moving
                /\ ~obj[w].nan
                /\ IsFinite(obj[w].tt)

C15_Witness ==
    \E w \in scene :
        /\ props[w].dwell = 0
        /\ obj[w].at > Period(props[w])
        /\ SpecRaw(obj[w].at, props[w]) = props[w].duration
        /\ obj[w].branch = "Backward"
        /\ obj[w].moving

\* a reading of s seconds
Seconds(s) == s * TicksPerSecond

\* C16: duration 8, dwell 3, offset 0: at elapsed 4 the phase is Forward
\* with localT = 1/2; at elapsed 9 the phase is DwellAtEnd, the walker is at
\* the last waypoint (curve parameter 1) and the dialog gate is true; at
\* elapsed 22 raw is 0 again and the walker is at the first waypoint.
C16_OfficeScenario ==
    \A w \in scene :
        props[w] = OfficeProps =>
            /\ (obj[w].at = Seconds(4)) =>
                   (obj[w].branch = "Forward" /\ obj[w].tt = Frac(1, 2))
            /\ (obj[w].at = Seconds(9)) =>
                   (obj[w].branch = "DwellAtEnd" /\ obj[w].tt = One)
            /\ (dlg[w].at = Seconds(9)) => dlg[w].visibleRef
            /\ (obj[w].at = Seconds(22)) =>
                   /\ ~obj[w].nan /\ obj[w].raw = 0
                   /\ obj[w].branch = "Forward"
                   /\ obj[w].tt = Zero

C16_Witness ==
    \E w \in scene :
        /\ props[w] = OfficeProps
        /\ obj[w].at = Seconds(22)
        /\ obj[w].tt = Zero
        /\ dlg[w].at = Seconds(9)
        /\ dlg[w].visibleRef

\* C17 as stated: duration 8, dwell 3, offset 0: at elapsed 11.5 the phase
\* is Backward, localT = 1/2 (the midpoint of the path) and the dialog gate
\* is false.
C17_OfficeHalfWayBack ==
    \A w \in scene :
        props[w] = OfficeProps =>
            /\ (2 * obj[w].at = Seconds(23)) =>
                   (obj[w].branch = "Backward" /\ obj[w].tt = Frac(1, 2))
            /\ (2 * dlg[w].at = Seconds(23)) => ~dlg[w].visibleRef

\* C17 amended: duration 8, dwell 3, offset 0: at elapsed 11.5 the phase is
\* Backward, half a second into the way back, so localT = 1 - 0.5/8 = 15/16,
\* and the dialog gate is false; the midpoint of the path (localT = 1/2) is
\* passed on the way back at elapsed 15, with the gate false as well.
C17_OfficeBackward ==
    \A w \in scene :
        props[w] = OfficeProps =>
            /\ (2 * obj[w].at = Seconds(23)) =>
                   (obj[w].branch = "Backward" /\ obj[w].tt = Frac(15, 16))
            /\ (2 * dlg[w].at = Seconds(23)) => ~dlg[w].visibleRef
            /\ (obj[w].at = Seconds(15)) =>
                   (obj[w].branch = "Backward" /\ obj[w].tt = Frac(1, 2))
            /\ (dlg[w].at = Seconds(15)) => ~dlg[w].visibleRef

C17_Witness ==
    \E w \in scene :
        /\ props[w] = OfficeProps
        /\ 2 * obj[w].at = Seconds(23)
        /\ dlg[w].at = obj[w].at
        /\ obj[w].branch = "Backward"
        /\ obj[w].tt = Frac(15, 16)
        /\ ~dlg[w].visibleRef

C19_OneReadingPerFrame ==
    \A w \in scene :
        (pending = {} /\ obj[w].at >= 0 /\ dlg[w].at >= 0) =>
            /\ dlg[w].at = obj[w].at
            /\ dlg[w].visibleRef <=> (obj[w].branch = "DwellAtEnd")

\* C20: throughout Forward localT = raw / F: it is 0 at raw = 0, lies in
\* [0, 1), and of two frames in the same Forward segment the later one has
\* the strictly greater localT.
C20_ForwardIncreasing ==
    [][ \A w \in scene :
          LET p  == props[w]
              F  == p.duration
              r2 == SpecRaw(obj'[w].at, p)
          IN  /\ (obj'[w].branch = "Forward") =>
                    /\ obj'[w].tt = Frac(r2, F)
                    /\ FracLeq(Zero, obj'[w].tt)
                    /\ FracLess(obj'[w].tt, One)
                    /\ (obj'[w].tt = Zero) <=> (r2 = 0)
              /\ ( /\ obj[w].branch = "Forward"
                   /\ obj'[w].branch = "Forward"
                   /\ obj[w].at < obj'[w].at
                   /\ CycleIndex(obj[w].at, p) = CycleIndex(obj'[w].at, p) )
                 => FracLess(obj[w].tt, obj'[w].tt)
      ]_vars

C20_Witness ==
    \E w \in scene :
        /\ obj[w].branch = "Forward"
        /\ frames[w] = 2
        /\ props[w].offset > 0
        /\ obj[w].at > Period(props[w])
        /\ SpecRaw(obj[w].at, props[w]) > 1
        /\ FracLess(Zero, obj[w].tt)

\* C21: in every DwellAtEnd frame the curve parameter is exactly 1, in every
\* DwellAtStart frame exactly 0, and between two frames of the same dwell
\* segment the pose (curve parameter, bob, roll) does not change.
C21_DwellPinned ==
    [][ \A w \in scene :
          LET p == props[w]
          IN  /\ (obj'[w].branch = "DwellAtEnd") => (obj'[w].tt = One)
              /\ (obj'[w].branch = "DwellAtStart") => (obj'[w].tt = Zero)
              /\ ( /\ obj[w].branch \in {"DwellAtEnd", "DwellAtStart"}
                   /\ obj'[w].branch = obj[w].branch
                   /\ obj[w].at < obj'[w].at
                   /\ CycleIndex(obj[w].at, p) = CycleIndex(obj'[w].at, p) )
                 => /\ obj'[w].tt = obj[w].tt
                    /\ obj'[w].bob = obj[w].bob
                    /\ obj'[w].roll = obj[w].roll
      ]_vars

C21_Witness ==
    \E w \in scene :
        /\ obj[w].branch = "DwellAtStart"
        /\ frames[w] = 2
        /\ props[w].dwell > 1
        /\ props[w].offset > 0
        /\ SpecRaw(obj[w].at, props[w]) = Period(props[w]) - 1
        /\ obj[w].tt = Zero

\* C22: for every elapsed and offset value the frame computation receives,
\* raw is a number with 0 <= raw < cycle; it is never negative.
C22_RawInRange ==
    \A w \in scene :
        obj[w].at >= 0 =>
            /\ ~obj[w].nan
            /\ 0 <= obj[w].raw
            /\ obj[w].raw < Cycle(props[w].duration, props[w].dwell)

\* the absolute value of a fraction
FracAbs(x) == <<Abs(x[1]), x[2]>>

\* C23: localT is continuous across the phase boundaries and the cycle
\* wrap: it is 1 at raw = F and at raw = F + D, 0 at raw = 2F + D and at
\* raw = 0, and between two frames dt apart it changes by at most dt / F.
C23_Continuous ==
    [][ \A w \in scene :
          LET p == props[w]
              F == p.duration
              D == p.dwell
              r == SpecRaw(obj'[w].at, p)
          IN  /\ (obj'[w].at >= 0 /\ r \in {F, F + D}) => (obj'[w].tt = One)
              /\ (obj'[w].at >= 0 /\ r \in {0, F + D + F}) => (obj'[w].tt = Zero)
              /\ (obj[w].at >= 0 /\ obj'[w].at >= obj[w].at) =>
                     FracLeq(FracAbs(FracSub(obj'[w].tt, obj[w].tt)),
                             Frac(obj'[w].at - obj[w].at, F))
      ]_vars

C23_Witness ==
    \E w \in scene :
        /\ frames[w] = 2
        /\ props[w].dwell = 0
        /\ props[w].duration > 1
        /\ obj[w].at > Period(props[w])
        /\ SpecRaw(obj[w].at, props[w]) = 0
        /\ obj[w].tt = Zero

\* C24: for every valid config and every raw in [0, cycle) the moving flag
\* agrees with the branch that chose the curve parameter: true exactly in
\* the Forward and Backward branches, false exactly in the two dwell
\* branches (tt = 1 or tt = 0).
C24_MovingAgreesWithBranch ==
    \A w \in scene :
        obj[w].at >= 0 =>
            LET p == props[w]
                b == Branch(obj[w].raw, p.duration, p.dwell)
            IN  /\ 0 <= obj[w].raw /\ obj[w].raw < Cycle(p.duration, p.dwell)
                /\ obj[w].moving <=> (b \in {"Forward", "Backward"})
                /\ ~obj[w].moving <=>
                       \/ (b = "DwellAtEnd" /\ obj[w].tt = One)
                       \/ (b = "DwellAtStart" /\ obj[w].tt = Zero)

C24_Witness ==
    \E w \in scene :
        /\ obj[w].at > Period(props[w])
        /\ props[w].dwell > 0
        /\ obj[w].raw = 2 * props[w].duration + props[w].dwell
        /\ obj[w].branch = "DwellAtStart"
        /\ ~obj[w].moving

\* C25: in every frame in which the walker is moving (Forward or Backward)
\* the look-ahead parameter differs from the position parameter tt.
C25_AheadDiffersWhenMoving ==
    \A w \in scene :
        (obj[w].at >= 0 /\ obj[w].moving) => (obj[w].ahead # obj[w].tt)

\* the sockets that are open or connecting
LiveSockets == {i \in DOMAIN demo.socks : demo.socks[i].state \in {"connecting", "open"}}

\* C26: after the demo page unmounts its socket is closed and no new
\* WebSocket is opened afterwards: no socket is open or connecting; and at
\* any time at most one socket of the session is open or connecting.
C26_NoSocketAfterUnmount ==
    /\ (demo.phase = "unmounted") => (LiveSockets = {})
    /\ Cardinality(LiveSockets) <= 1

\* C27: for one ApiService instance and any interleaving of sendMessage and
\* generateLogo calls at most one session is created, every request that
\* went out carries the id of that session (never null), which is the one
\* the instance holds.
C27_OneSession ==
    /\ api.created <= 1
    /\ \A c \in Calls :
           (api.calls[c].sid # 0 \/ api.calls[c].pc \in {"sent", "done"}) =>
               /\ api.calls[c].sid # 0
               /\ api.calls[c].sid = api.sessionId

\* the runs whose interval and timeout are active
LiveRuns == {i \in DOMAIN web.runs : web.runs[i].live}

\* C28: for any sequence of clicks on the start button, several clicks
\* before the component renders again included, at most one step interval
\* and one completion timeout are active at a time, webLoadIndex stays
\* within 0..(number of loading steps - 1), and no interval is left
\* running once the flow is ready; timers run only while the flow is loading.
C28_OneFlowAtATime ==
    /\ Cardinality(LiveRuns) <= 1
    /\ web.webLoadIndex \in 0..(LoadingSteps - 1)
    /\ (web.websiteFlow = "ready") => (LiveRuns = {})
    /\ (LiveRuns # {}) => (web.websiteFlow = "loading")

\* C29: the current step of WorkflowForm only moves between adjacent steps
\* of setup, data-intake, handoff, payment, dashboard; dashboard is shown
\* only after all four earlier steps were passed since the form was last
\* opened; and every transition of isOpen from false to true resets the
\* step to setup, the sub-step to 1 and values and payment data to empty
\* before any handler of the form runs.
C29_AdjacentStepsAndReset ==
    [][ LET reset  == form.effect /\ form.isOpen /\ form' # form
            opened == ~form.isOpen /\ form'.isOpen
            d      == StepIndex(form'.currentStep) - StepIndex(form.currentStep)
        IN  /\ opened => form'.effect
            /\ reset =>
                   /\ ~form'.effect /\ form'.isOpen
                   /\ form'.currentStep = "setup"
                   /\ form'.formStep = 1
                   /\ form'.values = {}
                   /\ form'.paymentData = {}
            /\ ~reset => d \in {-1, 0, 1}
            /\ (form'.currentStep = "dashboard" /\ form'.isOpen /\ ~form'.effect) =>
                   form'.seen = {WorkflowSteps[i] : i \in DOMAIN WorkflowSteps}
      ]_vars

C29_Witness ==
    /\ form.opens = 2
    /\ FormShown
    /\ form.currentStep = "dashboard"
    /\ form.track = "no-space"
    /\ form.values = Fields
    /\ form.paymentData = {"expedited"}

\* the places of the messages of send k, by their author, in a history
Places(h, from, k) == {i \in DOMAIN h : h[i].from = from /\ h[i].id = k}

\* C30: the history persisted under an agent's storage key holds only
\* messages of the conversation with that agent, whatever the interleaving
\* of sends, delayed replies and navigation between agents; and once its
\* timeout has run, each send to a non-Jarvis agent has left exactly one
\* user message followed by exactly one agent reply in that agent's history.
C30_HistoryPerAgent ==
    /\ \A a \in ChatAgents : \A i \in DOMAIN chat.storage[a] :
           chat.storage[a][i].conv = a
    /\ \A k \in 1..chat.sent :
           (\A t \in chat.timers : t.id # k) =>
               \E a \in ChatAgents \ {"jarvis"} :
                   LET h == chat.storage[a]
                   IN  /\ Cardinality(Places(h, "user", k)) = 1
                       /\ Cardinality(Places(h, "agent", k)) = 1
                       /\ \A i \in Places(h, "user", k) :
                              \A j \in Places(h, "agent", k) : i < j

====
